---- MODULE Spec2Model ----
(***************************************************************************)
(* Model of utils.py: load_data, remove_duplicate_rows,                    *)
(* check_columns_exist and create_roodataset_from_dataframe.               *)
(*                                                                         *)
(* A table (pandas DataFrame) is a record [columns, rows]: columns is the  *)
(* ordered sequence of column names, rows the ordered sequence of rows,    *)
(* each row a function from the column names to cell values.               *)
(* An optional value (Python None or an object) is a sequence of length 0  *)
(* or 1.                                                                   *)
(***************************************************************************)
EXTENDS Integers, Sequences, FiniteSets, TLC

VARIABLES
    \* ---- load_data
    dir,              \* directory listing: entry names in the order the OS yields them
    content,          \* content[i]: what pd.read_csv gives for dir[i] (<<>> = it raises)
    pattern_elements, \* **pattern_elements, ordered key/value pairs
    merge,            \* the merge argument
    files_found,      \* line 8
    files_loaded,     \* line 12: ordered dict, name -> None | table
    lidx,             \* position of the running for loop
    resulting_df,     \* line 24
    lret,             \* value returned by load_data
    lpc,              \* control point of load_data
    llog,             \* lines printed by the except branches
    \* ---- remove_duplicate_rows
    data, check_variables, cleaned_data, report, dpc, dcalls,
    \* ---- check_columns_exist
    columns_to_check, dataframes, cidx, cret, cpc,
    \* ---- create_roodataset_from_dataframe
    df, data_columns, roo_vars, roo_varset, roodataset, ridx, rpc

loadVars == <<dir, content, pattern_elements, merge, files_found, files_loaded,
              lidx, resulting_df, lret, lpc, llog>>
dedupVars == <<data, check_variables, cleaned_data, report, dpc, dcalls>>
checkVars == <<columns_to_check, dataframes, cidx, cret, cpc>>
rooVars == <<df, data_columns, roo_vars, roo_varset, roodataset, ridx, rpc>>
vars == <<loadVars, dedupVars, checkVars, rooVars>>

\* a step of one function leaves the variables of the other functions alone
LoadRest == UNCHANGED <<dedupVars, checkVars, rooVars>>
DedupRest == UNCHANGED <<loadVars, checkVars, rooVars>>
CheckRest == UNCHANGED <<loadVars, dedupVars, rooVars>>
RooRest == UNCHANGED <<loadVars, dedupVars, checkVars>>

(***************************************************************************)
(* Bounds                                                                  *)
(***************************************************************************)
MaxFiles == 3      \* directory entries
MaxPat == 2        \* pattern elements per call

(***************************************************************************)
(* Generic helpers                                                         *)
(***************************************************************************)
Range(s) == {s[i] : i \in DOMAIN s}

SeqsUpTo(S, n) == UNION {[1..k -> S] : k \in 0..n}

Injective(s) == \A i, j \in DOMAIN s : s[i] = s[j] => i = j

None == <<>>
Some(x) == <<x>>

(***************************************************************************)
(* Cell values: Python ints, Python strings (sequences of characters) and  *)
(* the NaN pandas fills in for a missing cell.                             *)
(***************************************************************************)
IntV(n) == [t |-> "int", n |-> n, s |-> <<>>]
StrV(s) == [t |-> "str", n |-> 0, s |-> s]
NaN == [t |-> "nan", n |-> 0, s |-> <<>>]

Digit(d) == CASE d = 0 -> "0" [] d = 1 -> "1" [] d = 2 -> "2" [] d = 3 -> "3"
              [] d = 4 -> "4" [] d = 5 -> "5" [] d = 6 -> "6" [] d = 7 -> "7"
              [] d = 8 -> "8" [] d = 9 -> "9"

RECURSIVE Digits(_)
Digits(n) == IF n < 10 THEN <<Digit(n)>> ELSE Append(Digits(n \div 10), Digit(n % 10))

\* str(v) of line 8
Str(v) == CASE v.t = "int" -> (IF v.n < 0 THEN <<"-">> \o Digits(-v.n) ELSE Digits(v.n))
            [] v.t = "str" -> v.s
            [] v.t = "nan" -> <<"n", "a", "n">>

\* sub in s, for Python strings
Contains(sub, s) ==
    \E i \in 0..(Len(s) - Len(sub)) : SubSeq(s, i + 1, i + Len(sub)) = sub

(***************************************************************************)
(* Tables                                                                  *)
(***************************************************************************)
EmptyDF == [columns |-> <<>>, rows |-> <<>>]

\* an assignment that leaves a column the table already has as it is
SetColumnKeep(t, key, value) ==
    [columns |-> IF key \in Range(t.columns) THEN t.columns ELSE Append(t.columns, key),
     rows |-> [i \in DOMAIN t.rows |->
                 [c \in Range(t.columns) \cup {key} |->
                     IF c \in DOMAIN t.rows[i] THEN t.rows[i][c] ELSE value]]]

\* df[key] = value, a scalar broadcast to every row
SetColumn(t, key, value) ==
    [columns |-> IF key \in Range(t.columns) THEN t.columns ELSE Append(t.columns, key),
     rows |-> [i \in DOMAIN t.rows |->
                 [c \in Range(t.columns) \cup {key} |->
                     IF c = key THEN value ELSE t.rows[i][c]]]]

\* pd.concat([a, b], axis = 0): outer join of the columns, rows of a then of b
Concat(a, b) ==
    LET cols == a.columns \o SelectSeq(b.columns, LAMBDA c : c \notin Range(a.columns))
        Fill(r) == [c \in Range(cols) |-> IF c \in DOMAIN r THEN r[c] ELSE NaN]
    IN [columns |-> cols,
        rows |-> [i \in DOMAIN a.rows |-> Fill(a.rows[i])]
                 \o [i \in DOMAIN b.rows |-> Fill(b.rows[i])]]

(***************************************************************************)
(* load_data                                                               *)
(***************************************************************************)
\* entry names of the modelled directories
NamePool == { <<"a", "1">>, <<"a", "b">>, <<".", "a", "1">>, <<"b", "1", "a">> }

PatternKeys == {"k", "x", "filesource"}
PatternValues == { StrV(<<"a">>), IntV(1) }

Row1(x) == [c \in {"x"} |-> IntV(x)]
Row2(x, k) == [c \in {"x", "k"} |-> IF c = "x" THEN IntV(x) ELSE IntV(k)]

\* what a readable entry parses to
SampleTables ==
    { [columns |-> <<"x">>, rows |-> <<Row1(1)>>],
      [columns |-> <<"k", "x">>, rows |-> <<Row2(1, 7), Row2(2, 8)>>] }

FileContents == {None} \cup {Some(t) : t \in SampleTables}

Listings == {s \in SeqsUpTo(NamePool, MaxFiles) : Injective(s)}

Patterns == {p \in SeqsUpTo([key : PatternKeys, value : PatternValues], MaxPat) :
                \A i, j \in DOMAIN p : p[i].key = p[j].key => i = j}

\* glob.glob(os.path.join(base_path, '*')): '*' does not match a leading dot
Glob(listing) == SelectSeq(listing, LAMBDA f : f[1] # ".")

\* a filter that accepts a name holding any one of the values
FilesFoundAny(all_files, pattern) ==
    SelectSeq(all_files,
              LAMBDA f : \E i \in DOMAIN pattern : Contains(Str(pattern[i].value), f))

\* line 8
FilesFound(all_files, pattern) ==
    SelectSeq(all_files,
              LAMBDA f : \A i \in DOMAIN pattern : Contains(Str(pattern[i].value), f))

RECURSIVE Tag(_, _, _)
\* lines 17-18, from pattern element i on
Tag(t, pattern, i) ==
    IF i > Len(pattern) THEN t
    ELSE Tag(SetColumn(t, pattern[i].key, pattern[i].value), pattern, i + 1)

\* position of a file in dir
DirIndex(f) == CHOOSE i \in DOMAIN dir : dir[i] = f

LoadInit ==
    /\ dir \in Listings
    /\ content \in [DOMAIN dir -> FileContents]
    /\ pattern_elements \in Patterns
    /\ merge \in BOOLEAN
    /\ files_found = <<>> /\ files_loaded = <<>> /\ lidx = 0
    /\ resulting_df = EmptyDF /\ lret = None /\ lpc = "scan" /\ llog = <<>>
    \* remove_duplicate_rows is not running
    /\ data = EmptyDF /\ check_variables = None /\ cleaned_data = <<>>
    /\ report = <<>> /\ dpc = "idle" /\ dcalls = 0
    \* check_columns_exist is not running
    /\ columns_to_check = {} /\ dataframes = <<>> /\ cidx = 0
    /\ cret = None /\ cpc = "idle"
    \* create_roodataset_from_dataframe is not running
    /\ df = EmptyDF /\ data_columns = None /\ roo_vars = <<>> /\ roo_varset = <<>>
    /\ roodataset = None /\ ridx = 0 /\ rpc = "idle"

\* lines 7-13
Scan ==
    /\ lpc = "scan"
    /\ files_found' = FilesFound(Glob(dir), pattern_elements)
    /\ files_loaded' = [i \in DOMAIN files_found' |->
                           [name |-> files_found'[i], value |-> None]]
    /\ lidx' = 1
    /\ lpc' = "load"
    /\ UNCHANGED <<dir, content, pattern_elements, merge, resulting_df, lret, llog>>
    /\ LoadRest

\* lines 14-19, an iteration whose read succeeds
LoadFileOk ==
    /\ lpc = "load" /\ lidx <= Len(files_found)
    /\ LET c == content[DirIndex(files_found[lidx])] IN
        /\ c # None
        /\ files_loaded' = [files_loaded EXCEPT
                               ![lidx].value = Some(Tag(c[1], pattern_elements, 1))]
    /\ lidx' = lidx + 1
    /\ UNCHANGED <<dir, content, pattern_elements, merge, files_found,
                   resulting_df, lret, lpc, llog>>
    /\ LoadRest

\* lines 14-16, 20-21, an iteration whose read raises
LoadFileError ==
    /\ lpc = "load" /\ lidx <= Len(files_found)
    /\ content[DirIndex(files_found[lidx])] = None
    /\ llog' = Append(llog, [msg |-> "Can not open file", file |-> files_found[lidx]])
    /\ lidx' = lidx + 1
    /\ UNCHANGED <<dir, content, pattern_elements, merge, files_found, files_loaded,
                   resulting_df, lret, lpc>>
    /\ LoadRest

\* lines 23, 33-34
ReturnFiles ==
    /\ lpc = "load" /\ lidx > Len(files_found) /\ ~merge
    /\ lret' = Some([files |-> files_loaded, table |-> EmptyDF])
    /\ lpc' = "returned"
    /\ UNCHANGED <<dir, content, pattern_elements, merge, files_found, files_loaded,
                   lidx, resulting_df, llog>>
    /\ LoadRest

\* lines 23-24
MergeStart ==
    /\ lpc = "load" /\ lidx > Len(files_found) /\ merge
    /\ resulting_df' = EmptyDF
    /\ lidx' = 1
    /\ lpc' = "merge"
    /\ UNCHANGED <<dir, content, pattern_elements, merge, files_found, files_loaded,
                   lret, llog>>
    /\ LoadRest

\* lines 25-28, an iteration over a loaded table; pd.concat of two tables with
\* distinct column names does not raise, so lines 29-31 are never entered
MergeFile ==
    /\ lpc = "merge" /\ lidx <= Len(files_loaded)
    /\ files_loaded[lidx].value # None
    /\ LET file == SetColumn(files_loaded[lidx].value[1], "filesource",
                             StrV(files_loaded[lidx].name)) IN
        /\ files_loaded' = [files_loaded EXCEPT ![lidx].value = Some(file)]
        /\ resulting_df' = Concat(resulting_df, file)
    /\ lidx' = lidx + 1
    /\ UNCHANGED <<dir, content, pattern_elements, merge, files_found, lret, lpc, llog>>
    /\ LoadRest

\* lines 25-26, an iteration over an entry left at None: the item assignment
\* raises TypeError outside the try block and load_data does not return
MergeNone ==
    /\ lpc = "merge" /\ lidx <= Len(files_loaded)
    /\ files_loaded[lidx].value = None
    /\ lpc' = "TypeError"
    /\ UNCHANGED <<dir, content, pattern_elements, merge, files_found, files_loaded,
                   lidx, resulting_df, lret, llog>>
    /\ LoadRest

\* line 32
ReturnMerged ==
    /\ lpc = "merge" /\ lidx > Len(files_loaded)
    /\ lret' = Some([files |-> <<>>, table |-> resulting_df])
    /\ lpc' = "returned"
    /\ UNCHANGED <<dir, content, pattern_elements, merge, files_found, files_loaded,
                   lidx, resulting_df, llog>>
    /\ LoadRest

LoadNext ==
    \/ Scan \/ LoadFileOk \/ LoadFileError \/ ReturnFiles
    \/ MergeStart \/ MergeFile \/ MergeNone \/ ReturnMerged

(***************************************************************************)
(* remove_duplicate_rows                                                   *)
(***************************************************************************)
MaxRows == 3       \* rows of an input table
MaxVal == 2        \* cell values are 1..MaxVal

NumColumns == <<"A", "B">>

NumRows == [Range(NumColumns) -> 1..MaxVal]

NumTables == {[columns |-> NumColumns, rows |-> r] : r \in SeqsUpTo(NumRows, MaxRows)}

\* check_variables: None, or a non-empty list of column names of the table
\* (what pandas does with an empty list depends on its version)
CheckLists == {None} \cup {Some(l) : l \in SeqsUpTo(Range(NumColumns), 2) \ {<<>>}}

Proj(r, S) == [c \in S |-> r[c]]

RECURSIVE DropFromSkip(_, _, _, _)
\* removal that does not examine the row following a removed one
DropFromSkip(rows, S, i, acc) ==
    IF i > Len(rows) THEN acc
    ELSE IF \E k \in DOMAIN acc : Proj(acc[k], S) = Proj(rows[i], S)
         THEN IF i + 1 > Len(rows) THEN acc
              ELSE DropFromSkip(rows, S, i + 2, Append(acc, rows[i + 1]))
         ELSE DropFromSkip(rows, S, i + 1, Append(acc, rows[i]))

RECURSIVE DropFrom(_, _, _, _)
\* DataFrame.duplicated(keep='first') on the columns S, rows i.. of the table,
\* acc the rows kept so far
DropFrom(rows, S, i, acc) ==
    IF i > Len(rows) THEN acc
    ELSE IF \E k \in DOMAIN acc : Proj(acc[k], S) = Proj(rows[i], S)
         THEN DropFrom(rows, S, i + 1, acc)
         ELSE DropFrom(rows, S, i + 1, Append(acc, rows[i]))

\* keep='last': a row goes when a later row agrees with it
DropDuplicatesLast(t, subset) ==
    [columns |-> t.columns,
     rows |-> LET keep(i) == \A j \in DOMAIN t.rows :
                                j > i => Proj(t.rows[j], Range(subset))
                                            # Proj(t.rows[i], Range(subset))
                  RECURSIVE Pick(_)
                  Pick(i) == IF i > Len(t.rows) THEN <<>>
                             ELSE IF keep(i) THEN <<t.rows[i]>> \o Pick(i + 1)
                             ELSE Pick(i + 1)
              IN Pick(1)]

\* line 54: data.drop_duplicates(subset=check_variables)
DropDuplicates(t, subset) ==
    [columns |-> t.columns, rows |-> DropFrom(t.rows, Range(subset), 1, <<>>)]

\* lines 48-63; raised is the ZeroDivisionError of line 59
RemoveDuplicateRows(input, cv) ==
    LET check == IF cv = None THEN input.columns ELSE cv[1]
        initial_count == Len(input.rows)
        cleaned == DropDuplicates(input, check)
        final_count == Len(cleaned.rows)
        duplicates_removed == initial_count - final_count
    IN IF initial_count = 0
       THEN [raised |-> TRUE, cleaned |-> cleaned, removed |-> duplicates_removed,
             pct |-> <<0, 0>>]
       ELSE [raised |-> FALSE, cleaned |-> cleaned, removed |-> duplicates_removed,
             pct |-> <<duplicates_removed * 100, initial_count>>]

DedupInit ==
    /\ data \in NumTables
    /\ check_variables \in CheckLists
    /\ cleaned_data = <<>> /\ report = <<>> /\ dpc = "call" /\ dcalls = 0
    \* load_data is not running
    /\ dir = <<>> /\ content = <<>> /\ pattern_elements = <<>> /\ merge = FALSE
    /\ files_found = <<>> /\ files_loaded = <<>> /\ lidx = 0
    /\ resulting_df = EmptyDF /\ lret = None /\ lpc = "idle" /\ llog = <<>>
    \* check_columns_exist is not running
    /\ columns_to_check = {} /\ dataframes = <<>> /\ cidx = 0
    /\ cret = None /\ cpc = "idle"
    \* create_roodataset_from_dataframe is not running
    /\ df = EmptyDF /\ data_columns = None /\ roo_vars = <<>> /\ roo_varset = <<>>
    /\ roodataset = None /\ ridx = 0 /\ rpc = "idle"

\* remove_duplicate_rows(data, check_variables)
Dedup ==
    /\ dpc = "call" /\ dcalls = 0
    /\ LET r == RemoveDuplicateRows(data, check_variables) IN
        IF r.raised
        THEN /\ dpc' = "ZeroDivisionError"
             /\ UNCHANGED <<cleaned_data, report>>
        ELSE /\ dpc' = "returned"
             /\ cleaned_data' = Append(cleaned_data, r.cleaned)
             /\ report' = Append(report, [removed |-> r.removed, pct |-> r.pct])
    /\ dcalls' = 1
    /\ UNCHANGED <<data, check_variables>>
    /\ DedupRest

\* remove_duplicate_rows(cleaned_data, check_variables), on the returned table
DedupAgain ==
    /\ dpc = "returned" /\ dcalls = 1
    /\ LET r == RemoveDuplicateRows(cleaned_data[1], check_variables) IN
        IF r.raised
        THEN /\ dpc' = "ZeroDivisionError"
             /\ UNCHANGED <<cleaned_data, report>>
        ELSE /\ dpc' = "returned"
             /\ cleaned_data' = Append(cleaned_data, r.cleaned)
             /\ report' = Append(report, [removed |-> r.removed, pct |-> r.pct])
    /\ dcalls' = 2
    /\ UNCHANGED <<data, check_variables>>
    /\ DedupRest

DedupNext == Dedup \/ DedupAgain

(***************************************************************************)
(* check_columns_exist                                                     *)
(***************************************************************************)
MaxTables == 3     \* tables passed to check_columns_exist

ColumnNames == {"A", "B", "C"}

\* only the columns of a table matter here; tables without rows stand for all
ColumnLists == {s \in SeqsUpTo(ColumnNames, 2) : Injective(s)}

CheckInit ==
    /\ columns_to_check \in SUBSET {"A", "B"}
    /\ dataframes \in SeqsUpTo({[columns |-> c, rows |-> <<>>] : c \in ColumnLists},
                               MaxTables)
    /\ cidx = 0 /\ cret = None /\ cpc = "entry"
    \* load_data is not running
    /\ dir = <<>> /\ content = <<>> /\ pattern_elements = <<>> /\ merge = FALSE
    /\ files_found = <<>> /\ files_loaded = <<>> /\ lidx = 0
    /\ resulting_df = EmptyDF /\ lret = None /\ lpc = "idle" /\ llog = <<>>
    \* remove_duplicate_rows is not running
    /\ data = EmptyDF /\ check_variables = None /\ cleaned_data = <<>>
    /\ report = <<>> /\ dpc = "idle" /\ dcalls = 0
    \* create_roodataset_from_dataframe is not running
    /\ df = EmptyDF /\ data_columns = None /\ roo_vars = <<>> /\ roo_varset = <<>>
    /\ roodataset = None /\ ridx = 0 /\ rpc = "idle"

\* the containment taken the other way round
IsSubsetReversed(required, t) == Range(t.columns) \subseteq required

\* columns_to_check.issubset(set(df.columns))
IsSubset(required, t) == required \subseteq Range(t.columns)

\* lines 78-79
CheckNoTables ==
    /\ cpc = "entry" /\ Len(dataframes) = 0
    /\ cret' = Some(FALSE) /\ cpc' = "returned"
    /\ UNCHANGED <<columns_to_check, dataframes, cidx>>
    /\ CheckRest

\* lines 78, 81
CheckEnterLoop ==
    /\ cpc = "entry" /\ Len(dataframes) # 0
    /\ cidx' = 1 /\ cpc' = "loop"
    /\ UNCHANGED <<columns_to_check, dataframes, cret>>
    /\ CheckRest

\* lines 83-84, a table that has every required column
CheckPass ==
    /\ cpc = "loop" /\ cidx <= Len(dataframes)
    /\ IsSubset(columns_to_check, dataframes[cidx])
    /\ cidx' = cidx + 1
    /\ UNCHANGED <<columns_to_check, dataframes, cret, cpc>>
    /\ CheckRest

\* lines 83-85, a table that lacks a required column
CheckFail ==
    /\ cpc = "loop" /\ cidx <= Len(dataframes)
    /\ ~IsSubset(columns_to_check, dataframes[cidx])
    /\ cret' = Some(FALSE) /\ cpc' = "returned"
    /\ UNCHANGED <<columns_to_check, dataframes, cidx>>
    /\ CheckRest

\* line 87
CheckAllPassed ==
    /\ cpc = "loop" /\ cidx > Len(dataframes)
    /\ cret' = Some(TRUE) /\ cpc' = "returned"
    /\ UNCHANGED <<columns_to_check, dataframes, cidx>>
    /\ CheckRest

CheckNext ==
    \/ CheckNoTables \/ CheckEnterLoop \/ CheckPass \/ CheckFail \/ CheckAllPassed

(***************************************************************************)
(* create_roodataset_from_dataframe                                        *)
(*                                                                         *)
(* A float is kept in halves, so that the midpoint of two integers is      *)
(* exact: Float(x).h = 2x.  roo_vars is the list of RooRealVar objects;    *)
(* roo_varset holds references to them (positions in roo_vars), as         *)
(* RooArgSet.add does not copy.                                            *)
(***************************************************************************)
Float(x) == [nan |-> FALSE, h |-> 2 * x]
FNaN == [nan |-> TRUE, h |-> 0]

RooTables ==
    UNION {{[columns |-> c, rows |-> r] : r \in SeqsUpTo([Range(c) -> 1..MaxVal], MaxRows)} :
              c \in {<<"A">>, <<"A", "B">>, <<"B", "A">>}}

\* data_columns: None, or a list of names, some of them not in the table
Selections == {None} \cup {Some(l) : l \in SeqsUpTo({"A", "B", "Z"}, 2)}

RECURSIVE MinFrom(_, _, _, _)
\* Series.min() of column c over rows i.., m the least value so far
MinFrom(t, c, i, m) ==
    IF i > Len(t.rows) THEN m
    ELSE MinFrom(t, c, i + 1, IF t.rows[i][c] < m THEN t.rows[i][c] ELSE m)

RECURSIVE MaxFrom(_, _, _, _)
\* Series.max() of column c over rows i.., m the greatest value so far
MaxFrom(t, c, i, m) ==
    IF i > Len(t.rows) THEN m
    ELSE MaxFrom(t, c, i + 1, IF t.rows[i][c] > m THEN t.rows[i][c] ELSE m)

\* line 107: float(df[var].min()); the minimum of no values is NaN
ColMin(t, c) ==
    IF Len(t.rows) = 0 THEN FNaN ELSE Float(MinFrom(t, c, 2, t.rows[1][c]))

\* the value of the first row taken for the maximum
ColMaxFirst(t, c) ==
    IF Len(t.rows) = 0 THEN FNaN ELSE Float(t.rows[1][c])

\* line 108: float(df[var].max())
ColMax(t, c) ==
    IF Len(t.rows) = 0 THEN FNaN ELSE Float(MaxFrom(t, c, 2, t.rows[1][c]))

\* RooRealVar(name, title, minValue, maxValue): the value starts at the midpoint
RooRealVar(name, lo, hi) ==
    [name |-> name, min |-> lo, max |-> hi,
     val |-> IF lo.nan \/ hi.nan THEN FNaN ELSE [nan |-> FALSE, h |-> (lo.h + hi.h) \div 2]]

\* RooRealVar.setVal: a value outside the range is clipped to the nearest limit
SetVal(rv, x) ==
    [rv EXCEPT !.val = IF x.nan \/ rv.min.nan \/ rv.max.nan THEN x
                       ELSE IF x.h > rv.max.h THEN rv.max
                       ELSE IF x.h < rv.min.h THEN rv.min
                       ELSE x]

\* lines 104-109
MakeRooVars(t, selection) ==
    LET present == SelectSeq(selection, LAMBDA var : var \in Range(t.columns))
    IN [i \in DOMAIN present |-> RooRealVar(present[i], ColMin(t, present[i]),
                                            ColMax(t, present[i]))]

RECURSIVE AddAll(_, _, _)
\* lines 111-113: RooArgSet.add refuses an object whose name is already in the set
AddAll(rvs, i, set) ==
    IF i > Len(rvs) THEN set
    ELSE AddAll(rvs, i + 1,
                IF \E k \in DOMAIN set : rvs[set[k]].name = rvs[i].name
                THEN set ELSE Append(set, i))

\* line 115: the dataset clones the variables of the set
NewDataSet(rvs, set) ==
    [vars |-> [k \in DOMAIN set |->
                  [name |-> rvs[set[k]].name, min |-> rvs[set[k]].min,
                   max |-> rvs[set[k]].max]],
     entries |-> <<>>]

\* the values the variables of the set hold now
Snapshot(rvs, set) ==
    [n \in {rvs[set[k]].name : k \in DOMAIN set} |->
        rvs[CHOOSE j \in Range(set) : rvs[j].name = n].val]

\* entries that keep referring to the live variables
AddEntryAlias(ds, rvs, set) ==
    [ds EXCEPT !.entries = [i \in 1..(Len(ds.entries) + 1) |-> Snapshot(rvs, set)]]

\* line 120: RooDataSet.add copies the current values into a new entry
AddEntry(ds, rvs, set) ==
    [ds EXCEPT !.entries = Append(ds.entries, Snapshot(rvs, set))]

RooInit ==
    /\ df \in RooTables
    /\ data_columns \in Selections
    /\ roo_vars = <<>> /\ roo_varset = <<>>
    /\ roodataset = None /\ ridx = 0 /\ rpc = "entry"
    \* load_data is not running
    /\ dir = <<>> /\ content = <<>> /\ pattern_elements = <<>> /\ merge = FALSE
    /\ files_found = <<>> /\ files_loaded = <<>> /\ lidx = 0
    /\ resulting_df = EmptyDF /\ lret = None /\ lpc = "idle" /\ llog = <<>>
    \* remove_duplicate_rows is not running
    /\ data = EmptyDF /\ check_variables = None /\ cleaned_data = <<>>
    /\ report = <<>> /\ dpc = "idle" /\ dcalls = 0
    \* check_columns_exist is not running
    /\ columns_to_check = {} /\ dataframes = <<>> /\ cidx = 0
    /\ cret = None /\ cpc = "idle"

\* lines 101-115
RooBuild ==
    /\ rpc = "entry"
    /\ roo_vars' = MakeRooVars(df, IF data_columns = None THEN df.columns
                                   ELSE data_columns[1])
    /\ roo_varset' = AddAll(roo_vars', 1, <<>>)
    /\ roodataset' = Some(NewDataSet(roo_vars', roo_varset'))
    /\ ridx' = 1
    /\ rpc' = "rows"
    /\ UNCHANGED <<df, data_columns>>
    /\ RooRest

\* lines 117-120, one row
RooRow ==
    /\ rpc = "rows" /\ ridx <= Len(df.rows)
    /\ roo_vars' = [i \in DOMAIN roo_vars |->
                       SetVal(roo_vars[i], Float(df.rows[ridx][roo_vars[i].name]))]
    /\ roodataset' = Some(AddEntry(roodataset[1], roo_vars', roo_varset))
    /\ ridx' = ridx + 1
    /\ UNCHANGED <<df, data_columns, roo_varset, rpc>>
    /\ RooRest

\* line 122
RooReturn ==
    /\ rpc = "rows" /\ ridx > Len(df.rows)
    /\ rpc' = "returned"
    /\ UNCHANGED <<df, data_columns, roo_vars, roo_varset, roodataset, ridx>>
    /\ RooRest

RooNext == RooBuild \/ RooRow \/ RooReturn

(***************************************************************************)
(* Specifications, one per function                                        *)
(***************************************************************************)
SpecLoad == LoadInit /\ [][LoadNext]_vars

SpecDedup == DedupInit /\ [][DedupNext]_vars

SpecCheck == CheckInit /\ [][CheckNext]_vars

SpecRoo == RooInit /\ [][RooNext]_vars

(***************************************************************************)
(* Properties of load_data                                                 *)
(***************************************************************************)
LoadEnded == lpc \in {"returned", "TypeError"}

\* sub occurs in s at some offset
Occurs(sub, s) ==
    \E k \in 0..Len(s) :
        /\ k + Len(sub) <= Len(s)
        /\ \A j \in 1..Len(sub) : s[k + j] = sub[j]

MatchesAll(name) ==
    \A i \in DOMAIN pattern_elements : Occurs(Str(pattern_elements[i].value), name)

ReturnedKeys == {lret[1].files[i].name : i \in DOMAIN lret[1].files}

\* the found files whose read raised / succeeded
FailedFiles == {f \in Range(files_found) : content[DirIndex(f)] = None}
ReadFiles == SelectSeq(files_found, LAMBDA f : content[DirIndex(f)] # None)

\* C1 as stated: with merge=False the keys of the returned mapping are exactly
\* the names of the directory entries that contain every pattern value.
C1_KeysAreAllMatchingEntries ==
    (lpc = "returned" /\ ~merge) =>
        ReturnedKeys = {n \in Range(dir) : MatchesAll(n)}

\* C1 amended: with merge=False the keys of the returned mapping are exactly
\* the names of the directory entries that do not start with a dot and contain
\* every pattern value; no key is repeated.
C1_KeysAreVisibleMatchingEntries ==
    (lpc = "returned" /\ ~merge) =>
        /\ ReturnedKeys = {n \in Range(dir) : n[1] # "." /\ MatchesAll(n)}
        /\ Cardinality(ReturnedKeys) = Len(lret[1].files)

C1_Witness ==
    /\ lpc = "returned" /\ ~merge
    /\ Len(pattern_elements) = 2
    /\ \E n \in Range(dir) : n \in ReturnedKeys
    /\ \E n \in Range(dir) : n \notin ReturnedKeys /\ n[1] = "." /\ MatchesAll(n)
    /\ \E n \in Range(dir) :
          /\ n \notin ReturnedKeys /\ n[1] # "."
          /\ \E i \in DOMAIN pattern_elements :
                Occurs(Str(pattern_elements[i].value), n)

\* C2 as stated: when the read of a matched file fails, load_data still
\* returns, the failure is logged, and the result has nothing of that file: no
\* entry in the mapping (merge=False), no row in the merged table (merge=True).
C2_FailedFileIsSkipped ==
    (LoadEnded /\ FailedFiles # {}) =>
        /\ lpc = "returned"
        /\ \A f \in FailedFiles : \E i \in DOMAIN llog : llog[i].file = f
        /\ ~merge => ReturnedKeys \cap FailedFiles = {}
        /\ merge => \A i \in DOMAIN lret[1].table.rows :
                        \A f \in FailedFiles :
                            lret[1].table.rows[i]["filesource"] # StrV(f)

RECURSIVE RowsBefore(_)
\* rows of the successfully read files before the i-th of them
RowsBefore(i) ==
    IF i <= 1 THEN 0
    ELSE RowsBefore(i - 1) + Len(content[DirIndex(ReadFiles[i - 1])][1].rows)

PatternKeySet == {pattern_elements[i].key : i \in DOMAIN pattern_elements}

\* the merged table holds the rows of the read files, file after file
MergedRowsInOrder(t) ==
    /\ Len(t.rows) = RowsBefore(Len(ReadFiles) + 1)
    /\ \A i \in DOMAIN ReadFiles :
          LET src == content[DirIndex(ReadFiles[i])][1] IN
          \A j \in DOMAIN src.rows :
              LET r == t.rows[RowsBefore(i) + j] IN
              /\ r["filesource"] = StrV(ReadFiles[i])
              /\ \A c \in Range(src.columns) \ (PatternKeySet \cup {"filesource"}) :
                    r[c] = src.rows[j][c]

\* C3 as stated: with merge=True load_data returns one table holding the rows
\* of every successfully read matching file, in file order and row order, each
\* row with the name of its file in 'filesource'.
C3_MergedTableOfReadFiles ==
    (LoadEnded /\ merge) =>
        /\ lpc = "returned"
        /\ MergedRowsInOrder(lret[1].table)

\* the tables a return value holds
ProducedTables ==
    IF merge THEN {lret[1].table}
    ELSE {lret[1].files[i].value[1] :
             i \in {j \in DOMAIN lret[1].files : lret[1].files[j].value # None}}

HasConstantColumn(t, key, value) ==
    /\ key \in Range(t.columns)
    /\ \A i \in DOMAIN t.rows : t.rows[i][key] = value

\* C4 as stated: every table load_data produces has, for each pattern key, a
\* column of that name that holds the pattern value in every row.
C4_EveryTableTagged ==
    lpc = "returned" =>
        \A t \in ProducedTables : \A i \in DOMAIN pattern_elements :
            HasConstantColumn(t, pattern_elements[i].key, pattern_elements[i].value)

\* C4 amended: every table of the mapping returned with merge=False has, for
\* each pattern key, a column of that name holding the pattern value in every
\* row; a merged table made of at least one file has such a column for every
\* pattern key other than 'filesource', and its 'filesource' column holds the
\* file names; a merged table of no file has no column.
C4_TaggedExceptFilesource ==
    lpc = "returned" =>
        \A t \in ProducedTables : \A i \in DOMAIN pattern_elements :
            IF ~merge
            THEN HasConstantColumn(t, pattern_elements[i].key, pattern_elements[i].value)
            ELSE IF Len(files_loaded) = 0
            THEN t.columns = <<>>
            ELSE IF pattern_elements[i].key = "filesource"
            THEN /\ "filesource" \in Range(t.columns)
                 /\ \A j \in DOMAIN t.rows :
                       \E f \in Range(files_found) : t.rows[j]["filesource"] = StrV(f)
            ELSE HasConstantColumn(t, pattern_elements[i].key, pattern_elements[i].value)

C4_Witness ==
    /\ lpc = "returned" /\ merge
    /\ "k" \in PatternKeySet
    /\ Len(files_loaded) = 2
    /\ \E f \in Range(files_found) :
          LET src == content[DirIndex(f)][1] IN
          "k" \in Range(src.columns) /\ Len(src.rows) > 0
    /\ \E f \in Range(files_found) :
          "k" \notin Range(content[DirIndex(f)][1].columns)

(***************************************************************************)
(* Properties of remove_duplicate_rows                                     *)
(***************************************************************************)
\* the columns the rows are compared on
Subset == IF check_variables = None THEN Range(data.columns)
          ELSE Range(check_variables[1])

Agree(r1, r2) == \A c \in Subset : r1[c] = r2[c]

\* the rows that agree with no earlier row
FirstOccurrences(t) ==
    {i \in DOMAIN t.rows : \A j \in 1..(i - 1) : ~Agree(t.rows[j], t.rows[i])}

C6_Idempotent ==
    dcalls = 2 =>
        /\ dpc = "returned"
        /\ Len(cleaned_data) = 2
        /\ cleaned_data[2] = cleaned_data[1]
        /\ report[2].removed = 0

C6_Witness ==
    /\ dcalls = 2 /\ dpc = "returned"
    /\ Len(data.rows) >= 3 /\ Len(cleaned_data[1].rows) = 1
    /\ report[1].removed = Len(data.rows) - 1

\* C7 as stated: a call on a table of zero rows does not fail.
C7_EmptyTableDoesNotFail ==
    (dcalls >= 1 /\ Len(data.rows) = 0) => dpc = "returned"

(***************************************************************************)
(* Properties of check_columns_exist                                       *)
(***************************************************************************)
\* C8: the call returns true if and only if at least one table is given and
\* every required column is a column of every table; it always returns.
C8_TrueIffSubsetOfEveryTable ==
    cpc = "returned" =>
        /\ cret # None
        /\ cret[1] = (/\ Len(dataframes) >= 1
                      /\ \A i \in DOMAIN dataframes :
                            \A c \in columns_to_check :
                                \E k \in DOMAIN dataframes[i].columns :
                                    dataframes[i].columns[k] = c)

C8_Witness ==
    /\ cpc = "returned" /\ cret = Some(FALSE)
    /\ Len(dataframes) = 3
    /\ columns_to_check = {"A", "B"}
    /\ columns_to_check \subseteq Range(dataframes[1].columns)
    /\ columns_to_check \subseteq Range(dataframes[2].columns)
    /\ "A" \in Range(dataframes[3].columns)

(***************************************************************************)
(* Properties of create_roodataset_from_dataframe                          *)
(***************************************************************************)
Selected == IF data_columns = None THEN df.columns ELSE data_columns[1]

FirstIndex(s, x) == CHOOSE i \in DOMAIN s : s[i] = x /\ \A j \in 1..(i - 1) : s[j] # x

DataSetVars == roodataset[1].vars

\* C9: the variables of the dataset are the selected columns that the table
\* has, in selection order, and the range of each is the least and the greatest
\* value of its column; a selected name that is no column gives no variable.
C9_VariablesAndRanges ==
    rpc \in {"rows", "returned"} =>
        /\ {DataSetVars[k].name : k \in DOMAIN DataSetVars}
              = Range(Selected) \cap Range(df.columns)
        /\ \A k, l \in DOMAIN DataSetVars :
              k < l => FirstIndex(Selected, DataSetVars[k].name)
                          < FirstIndex(Selected, DataSetVars[l].name)
        /\ Len(df.rows) > 0 =>
              \A k \in DOMAIN DataSetVars :
                  LET v == DataSetVars[k] IN
                  /\ \E i \in DOMAIN df.rows : v.min = Float(df.rows[i][v.name])
                  /\ \E i \in DOMAIN df.rows : v.max = Float(df.rows[i][v.name])
                  /\ \A i \in DOMAIN df.rows :
                        /\ v.min.h <= 2 * df.rows[i][v.name]
                        /\ v.max.h >= 2 * df.rows[i][v.name]

C9_Witness ==
    /\ rpc = "returned"
    /\ data_columns = Some(<<"B", "Z">>)
    /\ df.columns = <<"A", "B">>
    /\ Len(df.rows) = 3
    /\ Len(DataSetVars) = 1
    /\ DataSetVars[1].min # DataSetVars[1].max
    /\ DataSetVars[1].max # Float(df.rows[1]["B"])

\* C10: the dataset gets one entry per table row, in row order; the i-th entry
\* holds the value of the i-th row for every variable, whatever rows follow,
\* and that value lies in the range of the variable.
C10_EntriesAreRowSnapshots ==
    rpc \in {"rows", "returned"} =>
        LET entries == roodataset[1].entries IN
        /\ Len(entries) = ridx - 1
        /\ rpc = "returned" => Len(entries) = Len(df.rows)
        /\ \A i \in DOMAIN entries :
              /\ DOMAIN entries[i] = {DataSetVars[k].name : k \in DOMAIN DataSetVars}
              /\ \A k \in DOMAIN DataSetVars :
                    LET v == DataSetVars[k] IN
                    /\ entries[i][v.name] = Float(df.rows[i][v.name])
                    /\ v.min.h <= entries[i][v.name].h
                    /\ entries[i][v.name].h <= v.max.h

C10_Witness ==
    /\ rpc = "returned"
    /\ Len(df.rows) = 3
    /\ Len(DataSetVars) = 2
    /\ Len(roodataset[1].entries) = 3
    /\ roodataset[1].entries[1] # roodataset[1].entries[3]
    /\ roodataset[1].entries[2] # roodataset[1].entries[3]

====
